---- MODULE Spec2Model ----
(***************************************************************************)
(* A model of the berust Befunge interpreter: the playfield (a flat byte   *)
(* buffer), the navigator (position and direction with wraparound) and the *)
(* interpreter's Iterator::next, which reads the cell under the navigator, *)
(* dispatches it to execute_step or parse_step and advances the navigator. *)
(***************************************************************************)
EXTENDS Integers, Sequences, FiniteSets, TLC

VARIABLES
    field,      \* Playfield.field: the flat byte buffer, indexed 0..Len-1
    width,      \* Playfield.width
    height,     \* Playfield.height
    pos,        \* PlayfieldNavigator.pos = <<x, y>>
    dir,        \* PlayfieldNavigator.dir
    stack,      \* Interpreter.stack: Vec<i64>, top is the last element
    mode,       \* Interpreter.mode
    input,      \* the bytes the reader has not delivered yet
    output,     \* the bytes written to the writer
    panic,      \* the panic that aborted the run, NoPanic while it runs
    ret,        \* what the last call of next() returned: "Some", "None", "-"
    dispatched, \* the handler the last call of next() dispatched to
    debug,      \* the build: TRUE when overflow checks are compiled in
    call,       \* the operation called last: "new", "next", "step", "turn"
    puts,       \* history: per buffer offset, <<v>> for the last v a `p` stored
                \* there, <<>> while no `p` has written it
    source,     \* history: the source text the playfield was created from, as
                \* its characters' code points
    arg,        \* history: the direction given to the last turn(dir), "-" before
    trail,      \* history of a navigator driven on its own: the positions at
                \* and since its construction or last turn, the latest last
    visual      \* the visual driver around the interpreter: its mutex, its two
                \* threads, the runtime's pause flag and command channel

vars == <<field, width, height, pos, dir, stack, mode, input, output, panic,
          ret, dispatched, debug, call, puts, source, arg, trail, visual>>

----------------------------------------------------------------------------
(* Bounds of the model *)

\* the longest stack a step may leave
MaxStack == 4
\* the largest magnitude of a stack value a step may leave
MaxVal == 300
\* the longest output a step may leave
MaxOut == 3
\* the widest and the highest playfield a navigator is driven over on its own
MaxWidth == 3
MaxHeight == 3
\* the longest source text a playfield is created from on its own
MaxSource == 4
\* the most commands waiting in the runtime's channel
MaxCmds == 1

----------------------------------------------------------------------------
(* Bytes: the byte of each character the programs and inputs use ("bt" is   *)
(* the backtick; "E9" is the byte 0xE9 in an input and the character U+00E9 *)
(* in a source text, which is no ASCII character)                           *)

Ord ==
    "0" :> 48 @@ "1" :> 49 @@ "2" :> 50 @@ "3" :> 51 @@ "4" :> 52 @@
    "5" :> 53 @@ "6" :> 54 @@ "7" :> 55 @@ "8" :> 56 @@ "9" :> 57 @@
    "+" :> 43 @@ "-" :> 45 @@ "*" :> 42 @@ "/" :> 47 @@ "%" :> 37 @@
    "!" :> 33 @@ "bt" :> 96 @@ ">" :> 62 @@ "<" :> 60 @@ "^" :> 94 @@
    "v" :> 118 @@ "?" :> 63 @@ "_" :> 95 @@ "|" :> 124 @@ "\"" :> 34 @@
    ":" :> 58 @@ "\\" :> 92 @@ "$" :> 36 @@ "." :> 46 @@ "," :> 44 @@
    "#" :> 35 @@ "p" :> 112 @@ "g" :> 103 @@ "&" :> 38 @@ "~" :> 126 @@
    "@" :> 64 @@ " " :> 32 @@ "\n" :> 10 @@ "a" :> 97 @@ "b" :> 98 @@
    "c" :> 99 @@ "x" :> 120 @@ "E9" :> 233 @@
    "\r" :> 13

Bytes(s) == [i \in 1..Len(s) |-> Ord[s[i]]]

Directions == {"Up", "Down", "Left", "Right"}

NoPanic == [msg |-> "", arg |-> <<>>]

----------------------------------------------------------------------------
(* Playfield *)

\* a line as str::lines yields it: without the carriage return of a CR LF
StripCr(l) ==
    IF l # <<>> /\ l[Len(l)] = 13 THEN SubSeq(l, 1, Len(l) - 1) ELSE l

\* str::lines: the text split at line feeds, each line without its line feed
\* and without a carriage return before it; a final line feed adds no line
RECURSIVE SplitLines(_, _)
SplitLines(s, cur) ==
    IF s = <<>> THEN (IF cur = <<>> THEN <<>> ELSE <<cur>>)
    ELSE IF Head(s) = 10 THEN <<StripCr(cur)>> \o SplitLines(Tail(s), <<>>)
    ELSE SplitLines(Tail(s), Append(cur, Head(s)))

\* str::bytes of one character below U+0800: its UTF-8 encoding
Utf8(c) == IF c < 128 THEN <<c>> ELSE <<192 + (c \div 64), 128 + (c % 64)>>

\* str::bytes of a line
RECURSIVE Encode(_)
Encode(l) == IF l = <<>> THEN <<>> ELSE Utf8(Head(l)) \o Encode(Tail(l))

MaxLen(ls) ==
    LET lens == {Len(ls[i]) : i \in 1..Len(ls)}
    IN  CHOOSE m \in lens : \A n \in lens : n <= m

\* format!("{:1$}", l, width): l with spaces up to a width counted in characters
Pad(l, w) == l \o [i \in 1..(w - Len(l)) |-> 32]

RECURSIVE Concat(_)
Concat(ls) == IF ls = <<>> THEN <<>> ELSE Head(ls) \o Concat(Tail(ls))

\* Option::unwrap on the None that max() gives for no lines
UnwrapNone == [msg |-> "called Option::unwrap() on a None value", arg |-> <<>>]

\* Playfield::new: width is the longest line's count of characters, the
\* buffer holds the bytes of the padded lines. A text of no lines has no
\* longest line: max() is None and unwrap() panics before a playfield exists
\* (field, width and height are then placeholders of nothing constructed).
PlayfieldNew(src) ==
    LET lines == SplitLines(src, <<>>)
        w     == MaxLen(lines)
        h     == Len(lines)
        buf   == Concat([i \in 1..h |-> Encode(Pad(lines[i], w))])
    IN  IF lines = <<>>
        THEN [field |-> <<>>, width |-> 0, height |-> 0, panic |-> UnwrapNone]
        ELSE [field  |-> [i \in 0..(Len(buf) - 1) |-> buf[i + 1]],
              width  |-> w,
              height |-> h,
              panic  |-> NoPanic]

FieldLen(f) == Cardinality(DOMAIN f)

\* Index / IndexMut for Playfield: the offset index.0 + width * index.1 into the
\* flat buffer. The coordinates arrive as `i64 as usize`, so a negative one is
\* 2^64 + v. A usize is written hi * 2^64 + lo with lo small; an unwrapped
\* result of 2^64 or more has overflowed.
AsUsize(v) == [hi |-> IF v < 0 THEN 1 ELSE 0, lo |-> v]

Overflows(u) == u.hi >= 2 \/ (u.hi = 1 /\ u.lo >= 0)

Wrap(u) == [hi |-> IF u.lo < 0 THEN 1 ELSE 0, lo |-> u.lo]

\* the outcome of field[(x as usize, y as usize)]: the offset that is accessed,
\* or the panic. With overflow checks (dbg) an overflowing `*` or `+` panics,
\* without them it wraps; the Vec then checks the offset against its length.
Index(f, w, x, y, dbg) ==
    LET ux   == AsUsize(x)
        uy   == AsUsize(y)
        prod == [hi |-> w * uy.hi, lo |-> w * uy.lo]
        p    == Wrap(prod)
        sum  == [hi |-> ux.hi + p.hi, lo |-> ux.lo + p.lo]
        idx  == Wrap(sum)
    IN  IF dbg /\ Overflows(prod)
        THEN [ok |-> FALSE, idx |-> 0,
              panic |-> [msg |-> "attempt to multiply with overflow", arg |-> <<>>]]
        ELSE IF dbg /\ Overflows(sum)
        THEN [ok |-> FALSE, idx |-> 0,
              panic |-> [msg |-> "attempt to add with overflow", arg |-> <<>>]]
        ELSE IF idx.hi = 0 /\ idx.lo < FieldLen(f)
        THEN [ok |-> TRUE, idx |-> idx.lo, panic |-> NoPanic]
        ELSE [ok |-> FALSE, idx |-> 0,
              panic |-> [msg |-> "index out of bounds", arg |-> <<FieldLen(f)>>]]

----------------------------------------------------------------------------
(* PlayfieldNavigator *)

PlayfieldNavigatorNew == [pos |-> <<0, 0>>, dir |-> "Right"]

\* step() with saturation at the border in place of the wraparound
stepClamped(p, d, w, h) ==
    CASE d = "Up"    -> IF p[2] > 0 THEN <<p[1], p[2] - 1>> ELSE p
      [] d = "Down"  -> IF p[2] < h - 1 THEN <<p[1], p[2] + 1>> ELSE p
      [] d = "Left"  -> IF p[1] > 0 THEN <<p[1] - 1, p[2]>> ELSE p
      [] d = "Right" -> IF p[1] < w - 1 THEN <<p[1] + 1, p[2]>> ELSE p

\* step() without the test for the border
stepUnchecked(p, d, w, h) ==
    CASE d = "Up"    -> <<p[1], p[2] - 1>>
      [] d = "Down"  -> <<p[1], p[2] + 1>>
      [] d = "Left"  -> <<p[1] - 1, p[2]>>
      [] d = "Right" -> <<p[1] + 1, p[2]>>

\* the position after step(): one cell in direction d, wrapping at the border
step(p, d, w, h) ==
    CASE d = "Up"    -> IF p[2] > 0 THEN <<p[1], p[2] - 1>> ELSE <<p[1], h - 1>>
      [] d = "Down"  -> IF p[2] < h - 1 THEN <<p[1], p[2] + 1>> ELSE <<p[1], 0>>
      [] d = "Left"  -> IF p[1] > 0 THEN <<p[1] - 1, p[2]>> ELSE <<w - 1, p[2]>>
      [] d = "Right" -> IF p[1] < w - 1 THEN <<p[1] + 1, p[2]>> ELSE <<0, p[2]>>

\* turn(dir) taken as a turn relative to the facing: a second turn to the
\* direction already faced turns back
turnRelative(d) ==
    IF d # dir THEN d
    ELSE CASE d = "Up" -> "Down" [] d = "Down" -> "Up"
           [] d = "Left" -> "Right" [] d = "Right" -> "Left"

\* the direction after turn(d)
turn(d) == d

----------------------------------------------------------------------------
(* InputOutput *)

RECURSIVE Digits(_)
Digits(n) == IF n < 10 THEN <<48 + n>> ELSE Append(Digits(n \div 10), 48 + (n % 10))

\* write_int without the space after the number
write_intNoSpace(out, val) ==
    out \o (IF val < 0 THEN <<45>> \o Digits(-val) ELSE Digits(val))

\* write!(writer, "{} ", val)
write_int(out, val) ==
    out \o (IF val < 0 THEN <<45>> \o Digits(-val) ELSE Digits(val)) \o <<32>>

\* val as u8: the low eight bits
AsU8(v) == v % 256

\* write!(writer, "{}", val as u8 as char): the char's UTF-8 encoding
write_ascii(out, val) ==
    LET c == AsU8(val)
    IN  IF c < 128 THEN Append(out, c)
        ELSE out \o <<192 + (c \div 64), 128 + (c % 64)>>

\* BufRead::read_line: the bytes up to and including the first line feed
RECURSIVE LineLen(_)
LineLen(inp) ==
    IF inp = <<>> THEN 0 ELSE IF Head(inp) = 10 THEN 1 ELSE 1 + LineLen(Tail(inp))

IsSpace(b) == b \in {9, 10, 11, 12, 13, 32}

RECURSIVE TrimStart(_)
TrimStart(l) == IF l # <<>> /\ IsSpace(Head(l)) THEN TrimStart(Tail(l)) ELSE l

RECURSIVE TrimEnd(_)
TrimEnd(l) ==
    IF l # <<>> /\ IsSpace(l[Len(l)]) THEN TrimEnd(SubSeq(l, 1, Len(l) - 1)) ELSE l

RECURSIVE DigitsValue(_)
DigitsValue(l) ==
    IF l = <<>> THEN 0 ELSE 10 * DigitsValue(SubSeq(l, 1, Len(l) - 1)) + (l[Len(l)] - 48)

\* str::parse::<i64>().unwrap_or(0): an optional sign, then one digit or more
ParseOr0(l) ==
    LET signed == l # <<>> /\ Head(l) \in {43, 45}
        ds     == IF signed THEN Tail(l) ELSE l
    IN  IF ds = <<>> \/ \E i \in 1..Len(ds) : ds[i] \notin 48..57 THEN 0
        ELSE IF signed /\ Head(l) = 45 THEN 0 - DigitsValue(ds) ELSE DigitsValue(ds)

\* read_int that parses the line as it was read, untrimmed
read_intNoTrim(inp) ==
    LET n == LineLen(inp)
    IN  [val  |-> ParseOr0(SubSeq(inp, 1, n)),
         rest |-> SubSeq(inp, n + 1, Len(inp))]

\* read_int: the value read and the input left. A line holding the byte 0xE9
\* is not UTF-8: read_line consumes it and fails, and read_int returns 0,
\* which is also what parsing a line with such a byte gives.
read_int(inp) ==
    LET n == LineLen(inp)
    IN  [val  |-> ParseOr0(TrimEnd(TrimStart(SubSeq(inp, 1, n)))),
         rest |-> SubSeq(inp, n + 1, Len(inp))]

\* read_ascii that widens the byte as a signed one
read_asciiSigned(inp) ==
    IF inp = <<>> THEN [val |-> -1, rest |-> inp]
    ELSE [val  |-> IF Head(inp) < 128 THEN Head(inp) ELSE Head(inp) - 256,
          rest |-> Tail(inp)]

\* read_ascii: read_exact of one byte, -1 when the input is exhausted
read_ascii(inp) ==
    IF inp = <<>> THEN [val |-> -1, rest |-> inp]
    ELSE [val |-> Head(inp), rest |-> Tail(inp)]

----------------------------------------------------------------------------
(* Interpreter *)

\* self.stack.pop().unwrap_or(0): the value popped and the stack left
Pop(st) ==
    IF st = <<>> THEN [val |-> 0, rest |-> <<>>]
    ELSE [val |-> st[Len(st)], rest |-> SubSeq(st, 1, Len(st) - 1)]

\* i64 `/` and `%`: the quotient truncated toward zero and its remainder
TruncDiv(n, d) ==
    LET q == (IF n < 0 THEN 0 - n ELSE n) \div (IF d < 0 THEN 0 - d ELSE d)
    IN  IF (n < 0) = (d < 0) THEN q ELSE 0 - q

TruncRem(n, d) == n - d * TruncDiv(n, d)

\* what each binary instruction pushes, a popped first and b second
Add(a, b) == a + b
\* `-` with its operands exchanged
SubSwapped(a, b) == a - b
Sub(a, b) == b - a
Mul(a, b) == a * b
Div(a, b) == TruncDiv(b, a)
\* `%` as a modulus that takes the sign of the divisor
RemFloored(a, b) ==
    LET r == TruncRem(b, a)
    IN  IF r # 0 /\ (r < 0) # (a < 0) THEN r + a ELSE r
Rem(a, b) == TruncRem(b, a)
Greater(a, b) == IF b > a THEN 1 ELSE 0

\* the operands of a binary instruction: a, then b, and the stack below them
PopTwo(st) ==
    LET p1 == Pop(st)
        p2 == Pop(p1.rest)
    IN  [a |-> p1.val, b |-> p2.val, rest |-> p2.rest]

\* `\` that pushes the two values back as they were
SwapKept(st) ==
    LET p2 == PopTwo(st)
    IN  Append(Append(p2.rest, p2.b), p2.a)

\* the `\` instruction: pop a, pop b, push a, push b
Swap(st) ==
    LET p2 == PopTwo(st)
    IN  Append(Append(p2.rest, p2.a), p2.b)

\* the interpreter's own state, as execute_step and parse_step change it
Self ==
    [field |-> field, pos |-> pos, dir |-> dir, stack |-> stack,
     input |-> input, output |-> output, panic |-> NoPanic, mode |-> mode]

Panicked(s, m, a) == [s EXCEPT !.panic = [msg |-> m, arg |-> a]]

\* `p` that also blanks the cell before the one it stores to
PutAndBlank(s) ==
    LET py == Pop(s.stack)
        px == Pop(py.rest)
        pv == Pop(px.rest)
        at == Index(s.field, width, px.val, py.val, debug)
        s1 == [s EXCEPT !.stack = pv.rest]
    IN  IF at.ok
        THEN [s1 EXCEPT !.field = [i \in DOMAIN s.field |->
                                     IF i = at.idx THEN AsU8(pv.val)
                                     ELSE IF i + 1 = at.idx THEN 32
                                     ELSE s.field[i]]]
        ELSE [s1 EXCEPT !.panic = at.panic]

\* `p` with the coordinates exchanged
PutTransposed(s) ==
    LET py == Pop(s.stack)
        px == Pop(py.rest)
        pv == Pop(px.rest)
        at == Index(s.field, width, py.val, px.val, debug)
        s1 == [s EXCEPT !.stack = pv.rest]
    IN  IF at.ok THEN [s1 EXCEPT !.field[at.idx] = AsU8(pv.val)]
        ELSE [s1 EXCEPT !.panic = at.panic]

\* the `p` instruction
Put(s) ==
    LET py == Pop(s.stack)
        px == Pop(py.rest)
        pv == Pop(px.rest)
        at == Index(s.field, width, px.val, py.val, debug)
        s1 == [s EXCEPT !.stack = pv.rest]
    IN  IF at.ok THEN [s1 EXCEPT !.field[at.idx] = AsU8(pv.val)]
        ELSE [s1 EXCEPT !.panic = at.panic]

\* `g` with the coordinates exchanged
GetTransposed(s) ==
    LET py == Pop(s.stack)
        px == Pop(py.rest)
        at == Index(s.field, width, py.val, px.val, debug)
        s1 == [s EXCEPT !.stack = px.rest]
    IN  IF at.ok THEN [s1 EXCEPT !.stack = Append(px.rest, s.field[at.idx])]
        ELSE [s1 EXCEPT !.panic = at.panic]

\* the `g` instruction
Get(s) ==
    LET py == Pop(s.stack)
        px == Pop(py.rest)
        at == Index(s.field, width, px.val, py.val, debug)
        s1 == [s EXCEPT !.stack = px.rest]
    IN  IF at.ok THEN [s1 EXCEPT !.stack = Append(px.rest, s.field[at.idx])]
        ELSE [s1 EXCEPT !.panic = at.panic]

\* `#` that does not step the navigator
BridgeNoSkip(s) == s

\* the `#` instruction: self.nav.step()
Bridge(s) == [s EXCEPT !.pos = step(s.pos, s.dir, width, height)]

\* `_` with its two directions exchanged
HorizontalIfSwapped(v) == IF v = 0 THEN "Left" ELSE "Right"

\* the direction `_` turns to on the popped value v
HorizontalIf(v) == IF v = 0 THEN "Right" ELSE "Left"

\* the direction `|` turns to on the popped value v
VerticalIf(v) == IF v = 0 THEN "Down" ELSE "Up"

\* execute_step(c): the state after the instruction c, with the mode it
\* returns; rnd is the direction rand::random() draws for `?`
execute_step(s, c, rnd) ==
    LET p1 == Pop(s.stack)
        p2 == PopTwo(s.stack)
        ex == [s EXCEPT !.mode = "Execute"]
    IN  CASE c \in 48..57 -> [ex EXCEPT !.stack = Append(s.stack, c - 48)]
          [] c = Ord["+"] -> [ex EXCEPT !.stack = Append(p2.rest, Add(p2.a, p2.b))]
          [] c = Ord["-"] -> [ex EXCEPT !.stack = Append(p2.rest, Sub(p2.a, p2.b))]
          [] c = Ord["*"] -> [ex EXCEPT !.stack = Append(p2.rest, Mul(p2.a, p2.b))]
          [] c = Ord["/"] ->
                IF p2.a = 0
                THEN Panicked([s EXCEPT !.stack = p2.rest],
                              "attempt to divide by zero", <<>>)
                ELSE [ex EXCEPT !.stack = Append(p2.rest, Div(p2.a, p2.b))]
          [] c = Ord["%"] ->
                IF p2.a = 0
                THEN Panicked([s EXCEPT !.stack = p2.rest],
                        "attempt to calculate the remainder with a divisor of zero",
                        <<>>)
                ELSE [ex EXCEPT !.stack = Append(p2.rest, Rem(p2.a, p2.b))]
          [] c = Ord["!"] ->
                [ex EXCEPT !.stack = Append(p1.rest, IF p1.val = 0 THEN 1 ELSE 0)]
          [] c = Ord["bt"] ->
                [ex EXCEPT !.stack = Append(p2.rest, Greater(p2.a, p2.b))]
          [] c = Ord[">"] -> [ex EXCEPT !.dir = turn("Right")]
          [] c = Ord["<"] -> [ex EXCEPT !.dir = turn("Left")]
          [] c = Ord["^"] -> [ex EXCEPT !.dir = turn("Up")]
          [] c = Ord["v"] -> [ex EXCEPT !.dir = turn("Down")]
          [] c = Ord["?"] -> [ex EXCEPT !.dir = turn(rnd)]
          [] c = Ord["_"] ->
                [ex EXCEPT !.stack = p1.rest,
                           !.dir = turn(HorizontalIf(p1.val))]
          [] c = Ord["|"] ->
                [ex EXCEPT !.stack = p1.rest,
                           !.dir = turn(VerticalIf(p1.val))]
          [] c = Ord["\""] -> [s EXCEPT !.mode = "Parse"]
          [] c = Ord[":"] -> [ex EXCEPT !.stack = Append(Append(p1.rest, p1.val), p1.val)]
          [] c = Ord["\\"] -> [ex EXCEPT !.stack = Swap(s.stack)]
          [] c = Ord["$"] -> [ex EXCEPT !.stack = p1.rest]
          [] c = Ord["."] ->
                [ex EXCEPT !.stack = p1.rest, !.output = write_int(s.output, p1.val)]
          [] c = Ord[","] ->
                [ex EXCEPT !.stack = p1.rest, !.output = write_ascii(s.output, p1.val)]
          [] c = Ord["#"] -> [Bridge(s) EXCEPT !.mode = "Execute"]
          [] c = Ord["p"] -> [Put(s) EXCEPT !.mode = "Execute"]
          [] c = Ord["g"] -> [Get(s) EXCEPT !.mode = "Execute"]
          [] c = Ord["&"] ->
                [ex EXCEPT !.stack = Append(s.stack, read_int(s.input).val),
                           !.input = read_int(s.input).rest]
          [] c = Ord["~"] ->
                [ex EXCEPT !.stack = Append(s.stack, read_ascii(s.input).val),
                           !.input = read_ascii(s.input).rest]
          [] c = Ord["@"] -> [s EXCEPT !.mode = "Terminate"]
          [] c = Ord[" "] -> ex
          [] OTHER -> Panicked(s, "Illegal character", <<c>>)

\* parse_step that lets `@` end the run inside a string
parse_stepTerminating(s, c) ==
    IF c = Ord["\""] THEN [s EXCEPT !.mode = "Execute"]
    ELSE IF c = Ord["@"] THEN [s EXCEPT !.mode = "Terminate"]
    ELSE [s EXCEPT !.stack = Append(s.stack, c), !.mode = "Parse"]

\* parse_step that never leaves string mode
parse_stepNeverCloses(s, c) ==
    IF c = Ord["\""] THEN [s EXCEPT !.mode = "Parse"]
    ELSE [s EXCEPT !.stack = Append(s.stack, c), !.mode = "Parse"]

\* parse_step(c)
parse_step(s, c) ==
    IF c = Ord["\""] THEN [s EXCEPT !.mode = "Execute"]
    ELSE [s EXCEPT !.stack = Append(s.stack, c), !.mode = "Parse"]

\* the handler next() dispatches to in mode m
Handler(m) ==
    CASE m = "Execute" -> "execute_step"
      [] m = "Parse"   -> "parse_step"
      [] OTHER         -> "none"

\* the state after the dispatch of next(), before the navigator advances
Dispatch(s, val, rnd) ==
    CASE s.mode = "Execute"   -> execute_step(s, val, rnd)
      [] s.mode = "Parse"     -> parse_step(s, val)
      [] s.mode = "Terminate" -> [s EXCEPT !.mode = "Terminate"]

\* next() without the early return on Terminate
NextOfNoReturn(s, val, rnd) ==
    LET d == Dispatch(s, val, rnd)
    IN  IF d.panic # NoPanic THEN [st |-> d, ret |-> "-"]
        ELSE [st  |-> [d EXCEPT !.pos = step(d.pos, d.dir, width, height)],
              ret |-> IF d.mode = "Terminate" THEN "None" ELSE "Some"]

\* next() with the navigator stepped before the dispatch, not after it
NextOfStepFirst(s, val, rnd) ==
    LET d == Dispatch([s EXCEPT !.pos = step(s.pos, s.dir, width, height)], val, rnd)
    IN  IF d.panic # NoPanic THEN [st |-> d, ret |-> "-"]
        ELSE IF d.mode = "Terminate" THEN [st |-> [d EXCEPT !.pos = s.pos], ret |-> "None"]
        ELSE [st |-> d, ret |-> "Some"]

\* next() that returns None one call late: Some from the call that finds the
\* `@`, None from the calls made in Terminate mode
NextOfEndsLate(s, val, rnd) ==
    LET d == Dispatch(s, val, rnd)
    IN  IF d.panic # NoPanic THEN [st |-> d, ret |-> "-"]
        ELSE IF d.mode = "Terminate"
        THEN [st |-> d, ret |-> IF s.mode = "Terminate" THEN "None" ELSE "Some"]
        ELSE [st  |-> [d EXCEPT !.pos = step(d.pos, d.dir, width, height)],
              ret |-> "Some"]

\* what next() as a whole makes of the state: a panic ends the call where it
\* is raised, Terminate returns None without a step of the navigator, and
\* any other mode steps the navigator and returns Some
NextOf(s, val, rnd) ==
    LET d == Dispatch(s, val, rnd)
    IN  IF d.panic # NoPanic THEN [st |-> d, ret |-> "-"]
        ELSE IF d.mode = "Terminate" THEN [st |-> d, ret |-> "None"]
        ELSE [st  |-> [d EXCEPT !.pos = step(d.pos, d.dir, width, height)],
              ret |-> "Some"]

\* rand::random() that never returns Up
DrawsNoUp(m, c) ==
    IF m = "Execute" /\ c = Ord["?"] THEN {"Down", "Left", "Right"} ELSE {"Right"}

\* what rand::random() may return in a call of next(): it is called by the `?`
\* instruction alone, and may return any direction
Draws(m, c) == IF m = "Execute" /\ c = Ord["?"] THEN Directions ELSE {"Right"}

\* the history of `p`: the value popped as v, at the offset it was stored at
PutsAfter(val) ==
    LET py == Pop(stack)
        px == Pop(py.rest)
        pv == Pop(px.rest)
        at == Index(field, width, px.val, py.val, debug)
    IN  IF mode = "Execute" /\ val = Ord["p"] /\ at.ok
        THEN [puts EXCEPT ![at.idx] = <<pv.val>>]
        ELSE puts

InRange(v) == v >= 0 - MaxVal /\ v <= MaxVal

\* the cell as the source text had it, whatever `p` has stored since
CurrentOfSource == PlayfieldNew(source).field[pos[1] + width * pos[2]]

\* self.field[self.nav.pos()]
Current == field[pos[1] + width * pos[2]]

\* Iterator::next for Interpreter
next ==
    /\ panic = NoPanic
    /\ \E rnd \in Draws(mode, Current) :
          LET val == Current
              r   == NextOf(Self, val, rnd)
          IN  /\ field' = r.st.field
              /\ pos' = r.st.pos
              /\ dir' = r.st.dir
              /\ stack' = r.st.stack
              /\ mode' = r.st.mode
              /\ input' = r.st.input
              /\ output' = r.st.output
              /\ panic' = r.st.panic
              /\ ret' = r.ret
              /\ dispatched' = Handler(mode)
              /\ puts' = PutsAfter(val)
    /\ Len(stack') <= MaxStack
    /\ \A i \in 1..Len(stack') : InRange(stack'[i])
    /\ Len(output') <= MaxOut
    /\ call' = "next"
    /\ UNCHANGED <<width, height, debug, source, arg, trail, visual>>

----------------------------------------------------------------------------
(* The programs and inputs the interpreter is constructed with *)

\* the programs of the repository's tests and of the crate's doc example
TestSources ==
    { <<"7", "3", "+">>,
      <<"7", "3", "-">>,
      <<"7", "3", "*">>,
      <<"7", "3", "/">>,
      <<"7", "3", "%">>,
      <<"0", "!">>,
      <<"5", "!">>,
      <<"7", "3", "bt">>,
      <<"4", "5", "bt">>,
      <<"v", "\n", "3", "\n", ">", "4">>,
      <<"<", "@", "^", "\n", " ", " ", "@", "\n", " ", " ", "5">>,
      <<"?", "5", "@", "5", "\n", "5", "\n", "@", "\n", "5">>,
      <<"0", "_", "5">>,
      <<"3", "_", "5">>,
      <<"0", "|", "\n", " ", "5">>,
      <<"3", "|", "\n", " ", "5", "\n", " ", "4">>,
      <<"\"", "a", "b", "c", "\"">>,
      <<"1", "\"", "2", "3">>,
      <<"v", "\n", "\"", "\n", "a", "\n", "b", "\n", "\"">>,
      <<"1", ":">>,
      <<"1", "2", "\\">>,
      <<"1", "$">>,
      <<"1", ".">>,
      <<"\"", "a", "\"", ",", "2", "5", "*", ",">>,
      <<"#", "0", "1">>,
      <<"3", "0", "g", "5">>,
      <<"7", "7", "*", "4", "0", "p", "1">>,
      <<"@">>,
      <<"5", "@">>,
      <<"x">>,
      <<"2", "3", "*", ".", "@">> }

\* programs for the cases the tests leave out: pops of an empty or short stack,
\* negative operands, string mode over `@` and the edge, `p` and `g` in and out of
\* bounds, bridges and turns at the edges, output of bytes above 127 and of
\* negative numbers, turns over a stack that holds more
EdgeSources ==
    { <<"+">>,
      <<"-">>,
      <<"*">>,
      <<"/">>,
      <<"%">>,
      <<"!">>,
      <<"bt">>,
      <<"_">>,
      <<"|">>,
      <<":">>,
      <<"\\">>,
      <<"$">>,
      <<".">>,
      <<",">>,
      <<"p">>,
      <<"g">>,
      <<"5", "+">>,
      <<"5", "-">>,
      <<"5", "*">>,
      <<"5", "/">>,
      <<"5", "%">>,
      <<"5", "bt">>,
      <<"5", "\\">>,
      <<"5", "p">>,
      <<"5", "g">>,
      <<"5", "5", "p">>,
      <<"0", "7", "-", "3", "/">>,
      <<"0", "7", "-", "3", "%">>,
      <<"7", "0", "3", "-", "/">>,
      <<"7", "0", "3", "-", "%">>,
      <<"0", "7", "-", "0", "3", "-", "/">>,
      <<"3", "7", "-", "7", "3", "-", "bt">>,
      <<"\"", "@", "x", "7", "+">>,
      <<"1", "\"", "\n", "@", "\n", "\"">>,
      <<"<", "\"", "@">>,
      <<"0", "1", "-", "0", "0", "p", "0", "0", "g">>,
      <<"8", "8", "*", "4", "*", "1", "0", "p", "1", "0", "g", "@">>,
      <<"9", "0", "0", "p", "0", "0", "g">>,
      <<"7", "7", "*", "4", "0", "p", "4", "0", "g">>,
      <<"5", " ", "\n", "0", "1", "p", "0", "1", "g", "@">>,
      <<"5", "0", "g">>,
      <<"3", "0", "g", "\n", "a", "b", "c">>,
      <<"9", "3", "0", "p", "\n", "a", "b", "c">>,
      <<"0", "1", "g">>,
      <<"0", "0", "1", "-", "g">>,
      <<"0", "1", "-", "1", "g", "\n", "a", "b">>,
      <<"0", "1", "-", "0", "1", "-", "g">>,
      <<"9", "0", "1", "-", "1", "p", "\n", "a", "b">>,
      <<"0", "3", "g", "\n", "a", "b">>,
      <<"#">>,
      <<"#", "@">>,
      <<"v", "\n", "#", "\n", "@">>,
      <<"<", "#", "@", "1">>,
      <<"^", "\n", "1", "\n", "#">>,
      <<"?">>,
      <<"0", "1", "-", ",">>,
      <<"8", "8", "*", "2", "*", ",">>,
      <<"8", "8", "*", "4", "*", ",">>,
      <<"0", "7", "-", ".">>,
      <<"0", ".">>,
      <<"5", "5", "*", ".">>,
      <<"1", "#", "_", "_">>,
      <<"0", "1", "-", "|", "\n", "2", "\n", "3">>,
      <<"1", "2", "3", "_">>,
      <<"1", "?", "\n", " ", "@">>,
      <<"0", "7", "-", "0", "3", "-", "%">>,
      <<"1", "2", "3", "\\">>,
      <<"1", "2", ":">>,
      <<"1", "2", "$", "$", "$">>,
      <<"7", "0", "/">>,
      <<"7", "0", "%">>,
      <<"\"", "@", "\"", "6", "0", "p", "1">>,
      <<"\"", "a", "\"", "7", "0", "p", "\"", "1">>,
      <<" ", " ">>,
      <<" ", "\n", " ">>,
      <<"\"", "@", "\"", "$">> }

\* the programs that read input
InputSources ==
    { <<"&">>,
      <<"~", "~", "~">>,
      <<"&", "&">>,
      <<"~", "&", "~">> }

\* what the reader holds: "4\n", "abc\n", nothing, "ab", "-7\n5", " 12 \n",
\* "+3\n", "-\n", "1 2\n", "\n5", and the byte 0xE9 before "a"
Inputs ==
    { <<"4", "\n">>, <<"a", "b", "c", "\n">>, <<>>, <<"a", "b">>,
      <<"-", "7", "\n", "5">>, <<" ", "1", "2", " ", "\n">>,
      <<"+", "3", "\n">>, <<"-", "\n">>, <<"1", " ", "2", "\n">>,
      <<"\n", "5">>, <<"E9", "a">> }

\* every grid of these dimensions over GridAlphabet, as its source text
GridDims == {<<1, 1>>, <<2, 1>>, <<1, 2>>, <<3, 1>>, <<1, 3>>, <<2, 2>>}

GridAlphabet == {"1", "p", "g", "\"", "#", "v", "<", "@"}

RECURSIVE JoinLines(_)
JoinLines(rows) ==
    IF Len(rows) = 1 THEN Head(rows)
    ELSE Head(rows) \o <<"\n">> \o JoinLines(Tail(rows))

GridSources ==
    UNION { { JoinLines(rows) : rows \in [1..d[2] -> [1..d[1] -> GridAlphabet]] }
            : d \in GridDims }

Runs ==
    ((TestSources \cup EdgeSources \cup GridSources) \X {<<>>})
        \cup (InputSources \X Inputs)

----------------------------------------------------------------------------
(* The visual driver (defunge): one interpreter behind a mutex, the runtime *)
(* thread that steps it and the main thread that renders it                 *)

\* the driver as main() builds it: the mutex free, the runtime thread at the
\* top of its loop with running = false, the main thread about to render
VisualNew ==
    [mutex   |-> "free",    \* "free", "runtime", "render" or "poisoned"
     rt      |-> "poll",    \* where the runtime thread is
     ui      |-> "render",  \* where the main thread is
     running |-> FALSE,     \* the runtime thread's local `running`
     cmds    |-> <<>>,      \* the RuntimeCommand channel
     seen    |-> <<>>,      \* what the render in progress has read so far
     why     |-> "-",       \* history: what began the runtime's last next()
     calls   |-> 0]         \* history: the calls of next() made for it

\* the programs the driver is started on
VisualSources ==
    { <<"2", "3", "*", ".", "@">>,
      <<"1", "$">>,
      <<"1", "x">> }

RuntimeCommands == {"TogglePause", "Slower", "Faster", "Step"}

\* the keys of the main loop, and Tick
Events == {"Tick", "q", "p", "n", "Left", "Right", "other"}

\* the command main() sends on a key
CommandOf ==
    "p" :> "TogglePause" @@ "n" :> "Step" @@ "Left" :> "Slower" @@ "Right" :> "Faster"

----------------------------------------------------------------------------
(* The state machine *)

\* Interpreter::new(Playfield::new(src), InputOutput::new(inp, Vec::new()))
Init ==
    \E run \in Runs :
        LET pf  == PlayfieldNew(Bytes(run[1]))
            nav == PlayfieldNavigatorNew
        IN  /\ field = pf.field
            /\ width = pf.width
            /\ height = pf.height
            /\ pos = nav.pos
            /\ dir = nav.dir
            /\ stack = <<>>
            /\ mode = "Execute"
            /\ input = Bytes(run[2])
            /\ output = <<>>
            /\ panic = NoPanic
            /\ ret = "-"
            /\ dispatched = "none"
            /\ debug \in BOOLEAN
            /\ call = "new"
            /\ puts = [i \in DOMAIN pf.field |-> <<>>]
            /\ source = Bytes(run[1])
            /\ arg = "-"
            /\ trail = <<>>
            /\ visual = VisualNew

Next == next

Spec == Init /\ [][Next]_vars

----------------------------------------------------------------------------
(* A run to completion, `for _ in interpreter {}`: next() is called again  *)
(* as long as the last call returned Some                                  *)

run_next == ret # "None" /\ next

RunNext == run_next

RunSpec == Init /\ [][RunNext]_vars

----------------------------------------------------------------------------
(* The visual driver's two threads. The runtime's `delay` only times its   *)
(* sleep and is left out; Slower and Faster change nothing else.           *)

VisualInit ==
    \E src \in VisualSources :
        LET pf  == PlayfieldNew(Bytes(src))
            nav == PlayfieldNavigatorNew
        IN  /\ field = pf.field
            /\ width = pf.width
            /\ height = pf.height
            /\ pos = nav.pos
            /\ dir = nav.dir
            /\ stack = <<>>
            /\ mode = "Execute"
            /\ input = <<>>
            /\ output = <<>>
            /\ panic = NoPanic
            /\ ret = "-"
            /\ dispatched = "none"
            /\ debug \in BOOLEAN
            /\ call = "new"
            /\ puts = [i \in DOMAIN pf.field |-> <<>>]
            /\ source = Bytes(src)
            /\ arg = "-"
            /\ trail = <<>>
            /\ visual = VisualNew

\* the interpreter behind the mutex
interpreter ==
    <<field, width, height, pos, dir, stack, mode, input, output, panic, ret,
      dispatched, debug, call, puts, source, arg, trail>>

\* the process is alive: main() has neither returned nor panicked
Alive == visual.ui \notin {"quit", "dead"}

\* Step processed whether the runtime is running or not
rt_commandStepAlways ==
    /\ Alive /\ visual.rt = "poll" /\ visual.cmds # <<>>
    /\ LET cmd == Head(visual.cmds)
           v   == [visual EXCEPT !.cmds = Tail(visual.cmds)]
       IN  visual' =
             CASE cmd = "TogglePause" -> [v EXCEPT !.running = ~visual.running]
               [] cmd = "Step" ->
                     [v EXCEPT !.rt = "locking", !.why = "Step", !.calls = 0]
               [] OTHER -> v
    /\ UNCHANGED interpreter

\* for cmd in receiver.try_iter() { match cmd { .. } }: one command
rt_command ==
    /\ Alive /\ visual.rt = "poll" /\ visual.cmds # <<>>
    /\ LET cmd == Head(visual.cmds)
           v   == [visual EXCEPT !.cmds = Tail(visual.cmds)]
       IN  visual' =
             CASE cmd = "TogglePause" -> [v EXCEPT !.running = ~visual.running]
               [] cmd = "Step" /\ ~visual.running ->
                     [v EXCEPT !.rt = "locking", !.why = "Step", !.calls = 0]
               [] OTHER -> v
    /\ UNCHANGED interpreter

\* the channel is drained: if running { interpreter.lock().unwrap().next(); },
\* then the sleep
rt_tick ==
    /\ Alive /\ visual.rt = "poll" /\ visual.cmds = <<>>
    /\ visual' =
          IF visual.running
          THEN [visual EXCEPT !.rt = "locking", !.why = "tick", !.calls = 0]
          ELSE visual
    /\ UNCHANGED interpreter

\* the runtime entering next() without the mutex
rt_lockNoMutex ==
    /\ Alive /\ visual.rt = "locking"
    /\ visual' = [visual EXCEPT !.rt = "dispatching"]
    /\ UNCHANGED interpreter

\* interpreter.lock().unwrap() in the runtime thread: blocks while the mutex
\* is held, panics when it is poisoned
rt_lock ==
    /\ Alive /\ visual.rt = "locking"
    /\ visual.mutex \in {"free", "poisoned"}
    /\ visual' =
          IF visual.mutex = "free"
          THEN [visual EXCEPT !.mutex = "runtime", !.rt = "dispatching"]
          ELSE [visual EXCEPT !.rt = "dead"]
    /\ UNCHANGED interpreter

\* next() up to the end of its dispatch: the cell is read and execute_step or
\* parse_step has run. A panic poisons the mutex and ends the thread; on
\* Terminate next() returns None and the guard is dropped.
rt_dispatch ==
    /\ Alive /\ visual.rt = "dispatching"
    /\ \E rnd \in Draws(mode, Current) :
          LET val == Current
              d   == Dispatch(Self, val, rnd)
          IN  /\ field' = d.field
              /\ dir' = d.dir
              /\ stack' = d.stack
              /\ mode' = d.mode
              /\ input' = d.input
              /\ output' = d.output
              /\ panic' = d.panic
              /\ dispatched' = Handler(mode)
              /\ puts' = PutsAfter(val)
              /\ ret' = IF d.panic # NoPanic THEN "-"
                        ELSE IF d.mode = "Terminate" THEN "None" ELSE ret
              /\ visual' =
                    IF d.panic # NoPanic
                    THEN [visual EXCEPT !.mutex = "poisoned", !.rt = "dead",
                                        !.calls = visual.calls + 1]
                    ELSE IF d.mode = "Terminate"
                    THEN [visual EXCEPT !.mutex = "free", !.rt = "poll",
                                        !.calls = visual.calls + 1]
                    ELSE [visual EXCEPT !.rt = "advancing",
                                        !.calls = visual.calls + 1]
    /\ Len(stack') <= MaxStack
    /\ \A i \in 1..Len(stack') : InRange(stack'[i])
    /\ Len(output') <= MaxOut
    /\ call' = "next"
    /\ UNCHANGED <<width, height, pos, debug, source, arg, trail>>

\* the rest of next(): self.nav.step() and Some(()); the guard is dropped
\* when the statement ends
rt_advance ==
    /\ Alive /\ visual.rt = "advancing"
    /\ pos' = step(pos, dir, width, height)
    /\ ret' = "Some"
    /\ visual' = [visual EXCEPT !.mutex = "free", !.rt = "poll"]
    /\ UNCHANGED <<field, width, height, dir, stack, mode, input, output, panic,
                   dispatched, debug, call, puts, source, arg, trail>>

\* render(): self.interpreter.lock().unwrap()
ui_lock ==
    /\ visual.ui = "render"
    /\ visual.mutex \in {"free", "poisoned"}
    /\ visual' =
          IF visual.mutex = "free"
          THEN [visual EXCEPT !.mutex = "render", !.ui = "reading"]
          ELSE [visual EXCEPT !.ui = "dead"]
    /\ UNCHANGED interpreter

\* render(): width, height and format_playfield(field(), nav().pos())
ui_read_playfield ==
    /\ visual.ui = "reading"
    /\ visual' = [visual EXCEPT !.ui = "reading more",
                                !.seen = <<field, pos>>]
    /\ UNCHANGED interpreter

\* render(): format_stack, format_output and format_input
ui_read_io ==
    /\ visual.ui = "reading more"
    /\ visual' = [visual EXCEPT !.ui = "drawing",
                                !.seen = visual.seen \o <<stack, output, input>>]
    /\ UNCHANGED interpreter

\* render(): terminal.draw(..), after which the guard is dropped
ui_draw ==
    /\ visual.ui = "drawing"
    /\ visual' = [visual EXCEPT !.mutex = "free", !.ui = "waiting", !.seen = <<>>]
    /\ UNCHANGED interpreter

\* main(): events.next() and the match on the key. `q` leaves the loop; a
\* command is sent to the runtime, which panics once the runtime thread is gone
ui_event(e) ==
    /\ visual.ui = "waiting"
    /\ visual' =
          IF e = "q" THEN [visual EXCEPT !.ui = "quit"]
          ELSE IF e \in DOMAIN CommandOf
          THEN IF visual.rt = "dead" THEN [visual EXCEPT !.ui = "dead"]
               ELSE [visual EXCEPT !.ui = "render",
                                   !.cmds = Append(visual.cmds, CommandOf[e])]
          ELSE [visual EXCEPT !.ui = "render"]
    /\ Len(visual'.cmds) <= MaxCmds
    /\ UNCHANGED interpreter

VisualNext ==
    \/ rt_command
    \/ rt_tick
    \/ rt_lock
    \/ rt_dispatch
    \/ rt_advance
    \/ ui_lock
    \/ ui_read_playfield
    \/ ui_read_io
    \/ ui_draw
    \/ \E e \in Events : ui_event(e)

VisualSpec == VisualInit /\ [][VisualNext]_vars

----------------------------------------------------------------------------
(* The navigator on its own: PlayfieldNavigator::new over a playfield of   *)
(* spaces, then any sequence of step() and turn(dir) calls                 *)

BlankSource(w, h) == JoinLines([i \in 1..h |-> [j \in 1..w |-> " "]])

NavInit ==
    \E w \in 1..MaxWidth, h \in 1..MaxHeight :
        LET pf  == PlayfieldNew(Bytes(BlankSource(w, h)))
            nav == PlayfieldNavigatorNew
        IN  /\ field = pf.field
            /\ width = pf.width
            /\ height = pf.height
            /\ pos = nav.pos
            /\ dir = nav.dir
            /\ stack = <<>>
            /\ mode = "Execute"
            /\ input = <<>>
            /\ output = <<>>
            /\ panic = NoPanic
            /\ ret = "-"
            /\ dispatched = "none"
            /\ debug \in BOOLEAN
            /\ call = "new"
            /\ puts = [i \in DOMAIN pf.field |-> <<>>]
            /\ source = Bytes(BlankSource(w, h))
            /\ arg = "-"
            /\ trail = <<nav.pos>>
            /\ visual = VisualNew

\* the trail with position p added, cut to the last max(width, height) + 1
Trailed(t, p) ==
    LET keep == (IF width > height THEN width ELSE height) + 1
        all  == Append(t, p)
    IN  IF Len(all) > keep THEN SubSeq(all, Len(all) - keep + 1, Len(all)) ELSE all

\* PlayfieldNavigator::step
nav_step ==
    /\ pos' = step(pos, dir, width, height)
    /\ call' = "step"
    /\ trail' = Trailed(trail, pos')
    /\ UNCHANGED <<field, width, height, dir, stack, mode, input, output,
                   panic, ret, dispatched, debug, puts, source, arg, visual>>

\* PlayfieldNavigator::turn
nav_turn(d) ==
    /\ dir' = turn(d)
    /\ call' = "turn"
    /\ arg' = d
    /\ trail' = <<pos>>
    /\ UNCHANGED <<field, width, height, pos, stack, mode, input, output,
                   panic, ret, dispatched, debug, puts, source, visual>>

NavNext == nav_step \/ \E d \in Directions : nav_turn(d)

NavSpec == NavInit /\ [][NavNext]_vars

----------------------------------------------------------------------------
(* The playfield on its own: Playfield::new over a source text, then any   *)
(* sequence of writes playfield[(x, y)] = b                                *)

\* the characters of the source texts: a, line feed, U+00E9
SourceAlphabet == {"a", "\n", "E9"}

\* source texts with a CR LF line ending
CrLfSources == { <<"a", "\r", "\n">>, <<"a", "\r", "\n", "a">>, <<"\r", "\n", "a", "a">> }

\* every text of 0..MaxSource characters over SourceAlphabet: the empty text
\* has no line, each other one has one line or more
GridTexts ==
    UNION { [1..n -> SourceAlphabet] : n \in 0..MaxSource } \cup CrLfSources

GridInit ==
    \E text \in GridTexts :
        LET pf  == PlayfieldNew(Bytes(text))
            nav == PlayfieldNavigatorNew
        IN  /\ field = pf.field
            /\ width = pf.width
            /\ height = pf.height
            /\ pos = nav.pos
            /\ dir = nav.dir
            /\ stack = <<>>
            /\ mode = "Execute"
            /\ input = <<>>
            /\ output = <<>>
            /\ panic = pf.panic
            /\ ret = "-"
            /\ dispatched = "none"
            /\ debug \in BOOLEAN
            /\ call = "new"
            /\ puts = [i \in DOMAIN pf.field |-> <<>>]
            /\ source = Bytes(text)
            /\ arg = "-"
            /\ trail = <<>>
            /\ visual = VisualNew

\* IndexMut for Playfield: playfield[(x, y)] = b
grid_set(x, y, b) ==
    /\ panic = NoPanic
    /\ LET at == Index(field, width, x, y, debug)
       IN  IF at.ok
           THEN /\ field' = [field EXCEPT ![at.idx] = b]
                /\ puts' = [puts EXCEPT ![at.idx] = <<b>>]
                /\ panic' = NoPanic
           ELSE /\ field' = field
                /\ puts' = puts
                /\ panic' = at.panic
    /\ call' = "set"
    /\ UNCHANGED <<width, height, pos, dir, stack, mode, input, output, ret,
                   dispatched, debug, source, arg, trail, visual>>

\* the write of tests::playfield, of the byte 0x62, at every cell and one
\* past the last column and row
GridNext == \E x \in 0..width, y \in 0..height : grid_set(x, y, 98)

GridSpec == GridInit /\ [][GridNext]_vars

----------------------------------------------------------------------------
(* What the claims speak of *)

\* the cell under the navigator, which the coming call of next() reads
Cell == field[pos[1] + width * pos[2]]

\* one cell from p in direction d on the torus of width x height
Torus(p, d) ==
    CASE d = "Up"    -> <<p[1], (p[2] - 1) % height>>
      [] d = "Down"  -> <<p[1], (p[2] + 1) % height>>
      [] d = "Left"  -> <<(p[1] - 1) % width, p[2]>>
      [] d = "Right" -> <<(p[1] + 1) % width, p[2]>>

\* the i-th value from the top of the stack, 0 where the stack is too short
Operand(i) == IF Len(stack) >= i THEN stack[Len(stack) - i + 1] ELSE 0

\* the stack below its n topmost values
Below(n) == IF Len(stack) >= n THEN SubSeq(stack, 1, Len(stack) - n) ELSE <<>>

----------------------------------------------------------------------------
(* The claims *)

\* C1: Terminate is absorbing. Once the mode is Terminate, every further call
\* of next() leaves mode, stack, position, direction, grid and output as they
\* are, dispatches to no handler and returns None.
C1_TerminateAbsorbing ==
    [][mode = "Terminate" =>
          /\ mode' = "Terminate"
          /\ UNCHANGED <<stack, pos, dir, field, output, input, panic>>
          /\ dispatched' = "none"
          /\ ret' = "None"]_vars

\* a call of next() was made in Terminate mode, with a value on the stack
C1_Witness ==
    mode = "Terminate" /\ dispatched = "none" /\ ret = "None" /\ stack = <<5>>

\* C2: in every reachable state the navigator's position is inside the grid:
\* 0 <= x < width and 0 <= y < height.
C2_PositionInBounds ==
    /\ width >= 1 /\ height >= 1
    /\ pos[1] >= 0 /\ pos[1] < width
    /\ pos[2] >= 0 /\ pos[2] < height

\* the navigator has wrapped from the last column to the first of a grid that
\* the program has written to with `p`
C2_Witness ==
    /\ width > 1 /\ dir = "Right" /\ pos[1] = 0 /\ ret = "Some"
    /\ \E i \in DOMAIN puts : puts[i] # <<>>

\* how many values each popping instruction pops
Pops ==
    [c \in {Ord["+"], Ord["-"], Ord["*"], Ord["/"], Ord["%"], Ord["bt"],
            Ord["\\"], Ord["g"]} |-> 2]
    @@ [c \in {Ord["!"], Ord["_"], Ord["|"], Ord[":"], Ord["$"], Ord["."],
               Ord[","]} |-> 1]
    @@ [c \in {Ord["p"]} |-> 3]

\* the coordinates `p` and `g` pop: y first, then x
InGrid(x, y) == x >= 0 /\ x < width /\ y >= 0 /\ y < height

Abs(n) == IF n < 0 THEN 0 - n ELSE n

\* the quotient of b by a truncated toward zero, and the remainder that goes
\* with it, each by its defining property
Quotient(b, a) ==
    CHOOSE q \in (0 - Abs(b))..Abs(b) :
        /\ Abs(q) * Abs(a) <= Abs(b)
        /\ Abs(b) < (Abs(q) + 1) * Abs(a)
        /\ (q = 0 \/ (q > 0) = ((b > 0) = (a > 0)))

Remainder(b, a) ==
    CHOOSE r \in (0 - Abs(a))..Abs(a) :
        /\ Abs(r) < Abs(a)
        /\ (r = 0 \/ (r < 0) = (b < 0))
        /\ \E q \in (0 - Abs(b))..Abs(b) : b = q * a + r

\* what a binary instruction is to push for a (popped first) and b
BinaryResult(c, a, b) ==
    CASE c = Ord["+"]  -> b + a
      [] c = Ord["-"]  -> b - a
      [] c = Ord["*"]  -> b * a
      [] c = Ord["/"]  -> Quotient(b, a)
      [] c = Ord["%"]  -> Remainder(b, a)
      [] c = Ord["bt"] -> IF b > a THEN 1 ELSE 0

\* the byte in 0..255 congruent to v modulo 256
LowByte(v) == CHOOSE b \in 0..255 : \E k \in -4..4 : v = 256 * k + b

\* C3: empty-stack pops never abort. A popping instruction executed on a stack
\* shorter than what it pops completes the step (for `p` and `g`, when the
\* coordinates with 0 for the missing ones are inside the grid).
C3_EmptyPopsNeverAbort ==
    [][(/\ mode = "Execute"
        /\ Cell \in DOMAIN Pops
        /\ Len(stack) < Pops[Cell]
        /\ (Cell \in {Ord["p"], Ord["g"]} => InGrid(Operand(2), Operand(1))))
       => (panic' = NoPanic /\ ret' = "Some")]_vars

\* C4: binary operand order. Each of + - * / % ` pops a, then b, and pushes
\* b+a, b-a, b*a, b/a, b mod a, (1 if b>a else 0) on the stack below them
\* (for / and %, with a divisor a that is not 0).
C4_BinaryOperandOrder ==
    [][(/\ mode = "Execute"
        /\ Cell \in {Ord["+"], Ord["-"], Ord["*"], Ord["/"], Ord["%"], Ord["bt"]}
        /\ ~(Cell \in {Ord["/"], Ord["%"]} /\ Operand(1) = 0))
       => /\ panic' = NoPanic
          /\ stack' = Append(Below(2), BinaryResult(Cell, Operand(1), Operand(2)))]_vars

\* the program 73- has run its three steps and left exactly [4]
C4_Witness ==
    /\ width = 3 /\ height = 1
    /\ field[0] = Ord["7"] /\ field[1] = Ord["3"] /\ field[2] = Ord["-"]
    /\ pos = <<0, 0>> /\ stack = <<4>>

\* C5: string mode. In Parse mode a cell other than the delimiter is pushed as
\* its byte and not executed, the mode stays Parse and the navigator advances;
\* the delimiter pushes nothing and switches to Execute. No step in Parse mode
\* terminates or aborts the run, or touches grid, input, output or direction.
C5_StringMode ==
    [][mode = "Parse" =>
          /\ panic' = NoPanic
          /\ ret' = "Some"
          /\ mode' # "Terminate"
          /\ UNCHANGED <<field, input, output, dir>>
          /\ pos' = Torus(pos, dir)
          /\ IF Cell = Ord["\""]
             THEN stack' = stack /\ mode' = "Execute"
             ELSE stack' = Append(stack, Cell) /\ mode' = "Parse"]_vars

\* the string "@x7+ has been pushed across the right edge, back to its own
\* opening delimiter, which has closed it
C5_Witness ==
    /\ mode = "Execute" /\ dispatched = "parse_step"
    /\ stack = <<Ord["@"], Ord["x"], Ord["7"], Ord["+"]>>
    /\ pos = <<1, 0>>

\* the mode a step is to commit
ModeAfter(m, c) ==
    CASE m = "Execute" /\ c = Ord["\""] -> "Parse"
      [] m = "Execute" /\ c = Ord["@"]  -> "Terminate"
      [] m = "Parse" /\ c = Ord["\""]   -> "Execute"
      [] OTHER                          -> m

\* C6: step protocol. A call of next() in Execute or Parse mode that does not
\* end in Terminate advances the navigator once, after the instruction's own
\* effect (the extra cell of `#`, the turn), commits the new mode and returns
\* Some; one that ends in Terminate leaves the position on the `@` cell and
\* returns None.
C6_StepProtocol ==
    [][(mode # "Terminate" /\ panic' = NoPanic) =>
          LET own == IF mode = "Execute" /\ Cell = Ord["#"]
                     THEN Torus(pos, dir) ELSE pos
          IN  /\ mode' = ModeAfter(mode, Cell)
              /\ IF mode' = "Terminate"
                 THEN pos' = pos /\ ret' = "None" /\ Cell = Ord["@"]
                 ELSE pos' = Torus(own, dir') /\ ret' = "Some"]_vars

\* a run has ended on an `@` cell away from the origin, by the step that
\* executed it
C6_Witness ==
    /\ mode = "Terminate" /\ dispatched = "execute_step" /\ ret = "None"
    /\ Cell = Ord["@"] /\ pos # <<0, 0>>

\* C7: out-of-bounds `p`/`g` fail fast. With popped coordinates outside the
\* grid the run aborts, the grid is not written and `g` pushes nothing.
C7_OutOfBoundsFailFast ==
    [][(/\ mode = "Execute"
        /\ Cell \in {Ord["p"], Ord["g"]}
        /\ ~InGrid(Operand(2), Operand(1)))
       => /\ panic' # NoPanic
          /\ field' = field
          /\ Cell = Ord["g"] => stack' = Below(2)]_vars

\* C8: self-modification by `p`. With coordinates inside the grid, `p` pops y,
\* then x, then v; afterwards cell (x,y) holds v mod 256, every other cell, the
\* width and the height are unchanged, and the stack has lost those three.
C8_PutStoresLowByte ==
    [][(/\ mode = "Execute"
        /\ Cell = Ord["p"]
        /\ InGrid(Operand(2), Operand(1)))
       => /\ panic' = NoPanic /\ ret' = "Some"
          /\ field' = [field EXCEPT ![Operand(2) + width * Operand(1)] =
                                        LowByte(Operand(3))]
          /\ width' = width /\ height' = height
          /\ stack' = Below(3)]_vars

\* 77*40p has stored 49 at (4,0) and the run continues
C8_Witness ==
    /\ width = 7 /\ height = 1 /\ field[4] = 49 /\ puts[4] = <<49>>
    /\ stack = <<>> /\ pos = <<6, 0>> /\ ret = "Some"

\* C9: `g` reads back what `p` stored. With coordinates inside the grid, `g`
\* pops y, then x, and pushes the byte now in cell (x,y), a value in 0..255,
\* leaving the grid as it is; where a `p` has stored v in that cell, the value
\* pushed is v mod 256.
C9_GetReadsCell ==
    [][(/\ mode = "Execute"
        /\ Cell = Ord["g"]
        /\ InGrid(Operand(2), Operand(1)))
       => LET at == Operand(2) + width * Operand(1)
          IN  /\ panic' = NoPanic /\ ret' = "Some"
              /\ field' = field
              /\ field[at] \in 0..255
              /\ stack' = Append(Below(2), field[at])
              /\ puts[at] # <<>> => stack'[Len(stack')] = LowByte(puts[at][1])]_vars

\* 01-00p00g: `p` has stored -1 at (0,0) and `g` has read 255 back
C9_Witness ==
    /\ puts[0] = <<-1>> /\ stack = <<255>> /\ pos = <<0, 0>>
    /\ dispatched = "execute_step" /\ width = 9

\* C10: navigator step with wraparound. step() moves one cell on the facing
\* axis and leaves the other coordinate and the direction alone; at the border
\* it goes to the opposite edge, and with width or height 1 it stays at 0.
C10_StepWraps ==
    [][call' = "step" =>
          /\ dir' = dir
          /\ pos' = Torus(pos, dir)
          /\ dir \in {"Left", "Right"} => pos'[2] = pos[2]
          /\ dir \in {"Up", "Down"} => pos'[1] = pos[1]
          /\ (dir = "Right" /\ pos[1] = width - 1) => pos'[1] = 0
          /\ (dir = "Left" /\ pos[1] = 0) => pos'[1] = width - 1
          /\ (dir = "Down" /\ pos[2] = height - 1) => pos'[2] = 0
          /\ (dir = "Up" /\ pos[2] = 0) => pos'[2] = height - 1
          /\ (dir = "Right" /\ pos[1] < width - 1) => pos'[1] = pos[1] + 1
          /\ (dir = "Left" /\ pos[1] > 0) => pos'[1] = pos[1] - 1
          /\ (dir = "Down" /\ pos[2] < height - 1) => pos'[2] = pos[2] + 1
          /\ (dir = "Up" /\ pos[2] > 0) => pos'[2] = pos[2] - 1]_vars

\* on a playfield one cell wide, a step Up from the top row has gone to the
\* bottom row
C10_Witness ==
    /\ call = "step" /\ width = 1 /\ height = 3 /\ dir = "Up" /\ pos = <<0, 2>>

\* C11: toroidal closure. From every start position, width steps while facing
\* Right or Left bring x back to its value, and height steps while facing
\* Down or Up bring y back to its value.
C11_ToroidalClosure ==
    /\ trail # <<>> => pos = trail[Len(trail)]
    /\ (dir \in {"Left", "Right"} /\ Len(trail) > width)
          => trail[Len(trail) - width][1] = pos[1]
    /\ (dir \in {"Up", "Down"} /\ Len(trail) > height)
          => trail[Len(trail) - height][2] = pos[2]

\* three steps Left on a playfield three wide, from (1,2), are back at (1,2)
C11_Witness ==
    /\ call = "step" /\ width = 3 /\ height = 3 /\ dir = "Left"
    /\ Len(trail) = 4 /\ trail[1] = <<1, 2>> /\ trail[2] = <<0, 2>>
    /\ pos = <<1, 2>>

\* C12: turn(direction) is a pure assignment. It sets the facing direction to
\* its argument and leaves the position and the grid alone; a second turn(d)
\* leaves direction and position as the first one did.
C12_TurnAssigns ==
    [][call' = "turn" =>
          /\ dir' = arg'
          /\ pos' = pos
          /\ field' = field /\ width' = width /\ height' = height
          /\ (call = "turn" /\ arg = arg') => (dir' = dir /\ pos' = pos)]_vars

\* turn(Down) has been called away from the origin, while facing Right
C12_Witness ==
    /\ call = "turn" /\ arg = "Down" /\ dir = "Down" /\ pos = <<2, 1>>

\* the bytes of the instruction table
Instructions ==
    48..57 \cup
    { Ord[k] : k \in {"+", "-", "*", "/", "%", "!", "bt", ">", "<", "^", "v",
                      "?", "_", "|", "\"", ":", "\\", "$", ".", ",", "#", "p",
                      "g", "&", "~", "@", " "} }

\* C13: unrecognized instruction. In Execute mode a cell whose byte is not in
\* the instruction table aborts the run at that step, with stack, grid and
\* position as they were, and the diagnostic names the offending character and
\* its grid position.
C13_IllegalAbortsWithPosition ==
    [][(mode = "Execute" /\ Cell \notin Instructions) =>
          /\ panic' # NoPanic
          /\ UNCHANGED <<stack, field, pos>>
          /\ panic'.arg = <<Cell, pos[1], pos[2]>>]_vars

\* the number a sequence of decimal digits writes, most significant first
RECURSIVE Horner(_, _)
Horner(acc, ds) ==
    IF ds = <<>> THEN acc ELSE Horner(10 * acc + (Head(ds) - 48), Tail(ds))

\* the bytes t are an integer's text for n: an optional sign, then digits
Denotes(t, n) ==
    \E k \in 0..1 :
        /\ Len(t) > k
        /\ k = 1 => t[1] \in {43, 45}
        /\ \A i \in (k + 1)..Len(t) : t[i] \in 48..57
        /\ Horner(0, SubSeq(t, k + 1, Len(t))) = Abs(n)
        /\ n < 0 => (k = 1 /\ t[1] = 45)
        /\ n > 0 => ~(k = 1 /\ t[1] = 45)

\* where the first line of the input ends: at its first line feed, or with it
LineEnd ==
    IF \E i \in 1..Len(input) : input[i] = 10
    THEN CHOOSE i \in 1..Len(input) :
             input[i] = 10 /\ \A j \in 1..(i - 1) : input[j] # 10
    ELSE Len(input)

\* the first line of the input without the whitespace at its two ends
TrimmedLine ==
    LET ns == {i \in 1..LineEnd : input[i] \notin {9, 10, 11, 12, 13, 32}}
    IN  IF ns = {} THEN <<>>
        ELSE SubSeq(input, CHOOSE i \in ns : \A j \in ns : i <= j,
                           CHOOSE i \in ns : \A j \in ns : i >= j)

\* what `&` is to push: the integer the trimmed line is the text of, else 0
LineValue ==
    IF \E n \in (0 - MaxVal)..MaxVal : Denotes(TrimmedLine, n)
    THEN CHOOSE n \in (0 - MaxVal)..MaxVal : Denotes(TrimmedLine, n)
    ELSE 0

\* C14: `&` never aborts. It consumes exactly the first line of the input and
\* pushes the integer that the line, trimmed of whitespace, is the text of;
\* it pushes 0 when the input is exhausted or the line is no integer.
C14_ReadIntNeverAborts ==
    [][(mode = "Execute" /\ Cell = Ord["&"]) =>
          /\ panic' = NoPanic /\ ret' = "Some"
          /\ input' = SubSeq(input, LineEnd + 1, Len(input))
          /\ stack' = Append(stack, LineValue)
          /\ UNCHANGED <<field, output, dir>>]_vars

\* && on the input "-7\n5" has pushed -7 and then 5, and the input is used up
C14_Witness ==
    /\ width = 2 /\ field[0] = Ord["&"] /\ field[1] = Ord["&"]
    /\ stack = <<-7, 5>> /\ input = <<>> /\ pos = <<0, 0>>

\* C15: `~` consumes exactly one byte of the input and pushes its unsigned
\* value, in 0..255; on exhausted input it pushes -1 and consumes nothing. So
\* successive `~` steps deliver the bytes in order, each once, then -1.
C15_ReadAsciiInOrder ==
    [][(mode = "Execute" /\ Cell = Ord["~"]) =>
          /\ panic' = NoPanic /\ ret' = "Some"
          /\ IF input = <<>>
             THEN stack' = Append(stack, -1) /\ input' = <<>>
             ELSE /\ stack' = Append(stack, input[1])
                  /\ input[1] \in 0..255
                  /\ input' = SubSeq(input, 2, Len(input))
          /\ UNCHANGED <<field, output, dir>>]_vars

\* ~~~ on the bytes 0xE9 and "a" has pushed 233, then 97, then -1
C15_Witness ==
    /\ width = 3 /\ field[0] = Ord["~"]
    /\ stack = <<233, 97, -1>> /\ input = <<>> /\ pos = <<0, 0>>

\* C16: `,` pops v and appends exactly one byte, v mod 256, to the output, for
\* every v, those with v mod 256 in 128..255 and the negative ones included.
C16_WriteAsciiOneByte ==
    [][(mode = "Execute" /\ Cell = Ord[","]) =>
          /\ panic' = NoPanic /\ ret' = "Some"
          /\ stack' = Below(1)
          /\ output' = Append(output, LowByte(Operand(1)))]_vars

\* C17: `.` pops v (0 from an empty stack) and appends to the output the
\* decimal text of v, with a minus sign before a negative v and no needless
\* zero, then exactly one space, and nothing else.
C17_WriteIntThenSpace ==
    [][(mode = "Execute" /\ Cell = Ord["."]) =>
          LET v    == Operand(1)
              n    == Len(output)
              text == SubSeq(output', n + 1, Len(output') - 1)
              ds   == IF v < 0 THEN Tail(text) ELSE text
          IN  /\ panic' = NoPanic /\ ret' = "Some"
              /\ stack' = Below(1)
              /\ Len(output') >= n + 2
              /\ SubSeq(output', 1, n) = output
              /\ output'[Len(output')] = 32
              /\ v < 0 => text[1] = 45
              /\ ds # <<>>
              /\ \A i \in 1..Len(ds) : ds[i] \in 48..57
              /\ (Len(ds) > 1 => ds[1] # 48)
              /\ Horner(0, ds) = Abs(v)
              /\ UNCHANGED <<field, input, dir>>]_vars

\* 07-. has written "-7 " and emptied the stack
C17_Witness ==
    /\ width = 4 /\ field[3] = Ord["."] /\ field[2] = Ord["-"]
    /\ output = <<45, 55, 32>> /\ stack = <<>> /\ pos = <<0, 0>>

\* C18: bridge. A step that executes `#` moves the navigator two cells in the
\* facing direction, each with wraparound, so that on an axis longer than one
\* cell the cell after the `#` is not the one dispatched next; stack, grid,
\* direction and mode, input and output are unchanged.
C18_BridgeSkipsOne ==
    [][(mode = "Execute" /\ Cell = Ord["#"]) =>
          /\ panic' = NoPanic /\ ret' = "Some"
          /\ pos' = Torus(Torus(pos, dir), dir)
          /\ (IF dir \in {"Left", "Right"} THEN width ELSE height) > 1
                => pos' # Torus(pos, dir)
          /\ UNCHANGED <<stack, field, dir, mode, input, output>>]_vars

\* #01 has skipped the 0 and pushed the 1
C18_Witness ==
    /\ width = 3 /\ height = 1 /\ field[0] = Ord["#"] /\ field[1] = Ord["0"]
    /\ stack = <<1>> /\ pos = <<0, 0>> /\ dir = "Right"

\* C19: conditional turns. `_` pops v and faces Right if v = 0, else Left; `|`
\* pops v and faces Down if v = 0, else Up; the same step advances in the new
\* direction, and the stack below v is unchanged.
C19_ConditionalTurns ==
    [][(mode = "Execute" /\ Cell \in {Ord["_"], Ord["|"]}) =>
          /\ panic' = NoPanic /\ ret' = "Some"
          /\ (Cell = Ord["_"] /\ Operand(1) = 0) => dir' = "Right"
          /\ (Cell = Ord["_"] /\ Operand(1) # 0) => dir' = "Left"
          /\ (Cell = Ord["|"] /\ Operand(1) = 0) => dir' = "Down"
          /\ (Cell = Ord["|"] /\ Operand(1) # 0) => dir' = "Up"
          /\ stack' = Below(1)
          /\ pos' = Torus(pos, dir')
          /\ UNCHANGED <<field, input, output>>]_vars

\* 123_ has popped the 3, turned Left and stepped back onto the 3, with 1 and
\* 2 left on the stack
C19_Witness ==
    /\ width = 4 /\ height = 1 /\ field[3] = Ord["_"]
    /\ stack = <<1, 2>> /\ dir = "Left" /\ pos = <<2, 0>>

\* C20: `?` faces one of Up, Down, Left, Right: wherever a `?` is about to be
\* executed each of the four is a possible outcome, and every outcome leaves
\* stack and grid unchanged and advances one cell in the direction chosen.
C20_RandomTurn ==
    (mode = "Execute" /\ Cell = Ord["?"] /\ panic = NoPanic) =>
        /\ \A d \in Directions :
              ENABLED (next /\ dir' = d /\ pos' = Torus(pos, d))
        /\ ~ ENABLED (next /\ ~(/\ dir' \in Directions
                                /\ pos' = Torus(pos, dir')
                                /\ stack' = stack /\ field' = field
                                /\ panic' = NoPanic /\ ret' = "Some"))

\* the `?` of ?5@5 / 5 / @ / 5 has drawn Up and the step has wrapped to the
\* bottom row
C20_Witness ==
    /\ width = 4 /\ height = 4 /\ field[0] = Ord["?"]
    /\ dir = "Up" /\ pos = <<0, 3>> /\ stack = <<>> /\ ret = "Some"

\* the places of the line feeds in the source text
Feeds == {i \in 1..Len(source) : source[i] = 10}

\* the place of the k-th line feed
NthFeed(k) == CHOOSE i \in Feeds : Cardinality({j \in Feeds : j < i}) = k - 1

\* how many lines the source text has: one per line feed, and one more for
\* what follows the last line feed
LineCount ==
    Cardinality(Feeds)
        + (IF source # <<>> /\ source[Len(source)] # 10 THEN 1 ELSE 0)

\* the k-th line of the source text, without its line ending (LF or CR LF)
LineOf(k) ==
    LET from  == IF k = 1 THEN 1 ELSE NthFeed(k - 1) + 1
        ended == k <= Cardinality(Feeds)
        to    == IF ended THEN NthFeed(k) - 1 ELSE Len(source)
        raw   == SubSeq(source, from, to)
    IN  IF ended /\ raw # <<>> /\ raw[Len(raw)] = 13
        THEN SubSeq(raw, 1, Len(raw) - 1) ELSE raw

\* C21: grid shape. The grid created from a source text with at least one line
\* has the height of its number of lines and the width of its longest line,
\* its buffer holds width * height bytes, each line's characters are followed
\* by spaces up to the width, and cell writes keep the buffer's length.
C21_GridShape ==
    LineCount >= 1 =>
        /\ height = LineCount
        /\ \A k \in 1..LineCount : Len(LineOf(k)) <= width
        /\ \E k \in 1..LineCount : Len(LineOf(k)) = width
        /\ FieldLen(field) = width * height
        /\ \A k \in 1..height, i \in 1..width :
              LET at == (i - 1) + width * (k - 1)
              IN  IF puts[at] # <<>> THEN field[at] = puts[at][1]
                  ELSE IF i > Len(LineOf(k)) THEN field[at] = 32
                  ELSE LineOf(k)[i] < 128 => field[at] = LineOf(k)[i]

\* C22: stack manipulation. `:` pops v and pushes it twice; `\` pops a, then
\* b, and pushes a, then b, so that b ends on top; `$` removes the top value
\* and leaves the empty stack empty; the values below the operands stay.
C22_StackManipulation ==
    [][(mode = "Execute" /\ Cell \in {Ord[":"], Ord["\\"], Ord["$"]}) =>
          /\ panic' = NoPanic /\ ret' = "Some"
          /\ Cell = Ord[":"] => stack' = Below(1) \o <<Operand(1), Operand(1)>>
          /\ Cell = Ord["\\"] => stack' = Below(2) \o <<Operand(1), Operand(2)>>
          /\ Cell = Ord["$"] => stack' = Below(1)
          /\ (Cell = Ord["$"] /\ stack = <<>>) => stack' = <<>>
          /\ UNCHANGED <<field, input, output, dir>>]_vars

\* 123\ has exchanged the 2 and the 3 above the 1
C22_Witness ==
    /\ width = 4 /\ height = 1 /\ field[3] = Ord["\\"] /\ field[2] = Ord["3"]
    /\ stack = <<1, 3, 2>> /\ pos = <<0, 0>>

C24_RunToCompletion ==
    /\ [](/\ (ret = "None") = (mode = "Terminate")
          /\ ret = "None" => (dispatched = "execute_step" /\ Cell = Ord["@"])
          /\ source \in {Bytes(<<" ", " ">>), Bytes(<<" ", "\n", " ">>),
                         Bytes(<<"\"", "@", "\"", "$">>)} => ret # "None")
    /\ [][/\ (mode = "Execute" /\ Cell = Ord["@"])
                => (ret' = "None" /\ mode' = "Terminate")
          /\ (~(mode = "Execute" /\ Cell = Ord["@"]) /\ panic' = NoPanic)
                => (ret' = "Some" /\ mode' # "Terminate")]_vars

\* 23*.@ has consumed four steps and ended on the fifth call, with "6 " written
C24_Witness ==
    /\ source = Bytes(<<"2", "3", "*", ".", "@">>)
    /\ mode = "Terminate" /\ ret = "None" /\ pos = <<4, 0>>
    /\ output = <<54, 32>> /\ stack = <<>>

\* the interpreter is between two steps: no call of next() is under way
BetweenSteps == visual.rt \notin {"dispatching", "advancing"}

\* C25: in the visual driver the runtime thread and the rendering thread never
\* access the interpreter at the same time. A call of next() and a render's
\* reading of grid, position, stack and output each happen while that thread
\* holds the mutex, so what a render has read is the state between two steps.
C25_MutexSerializes ==
    /\ visual.rt \in {"dispatching", "advancing"} => visual.mutex = "runtime"
    /\ visual.ui \in {"reading", "reading more", "drawing"}
          => (visual.mutex = "render" /\ BetweenSteps)
    /\ visual.ui = "reading more" => visual.seen = <<field, pos>>
    /\ visual.ui = "drawing"
          => visual.seen = <<field, pos, stack, output, input>>

\* a render has read the state after the two pushes of 23*.@ and holds the
\* mutex, while the runtime thread waits for it to begin its next step
C25_Witness ==
    /\ visual.ui = "drawing" /\ visual.mutex = "render"
    /\ visual.rt = "locking" /\ visual.running
    /\ stack = <<2, 3>> /\ pos = <<2, 0>>
    /\ visual.seen = <<field, <<2, 0>>, <<2, 3>>, <<>>, <<>>>>

\* the runtime thread takes the command at the head of the channel
Takes(cmd) ==
    /\ visual.rt = "poll" /\ visual.cmds # <<>> /\ Head(visual.cmds) = cmd
    /\ visual'.cmds = Tail(visual.cmds)

\* C26: runtime commands. The runtime starts paused; TogglePause flips between
\* paused and running; Step begins exactly one call of next() when the runtime
\* is paused as the command is processed, and is ignored while it runs; while
\* paused and without a Step the interpreter does not change.
C26_RuntimeCommands ==
    /\ ~visual.running
    /\ [][/\ Takes("TogglePause") => visual'.running = ~visual.running
          /\ (Takes("Step") /\ ~visual.running)
                => (visual'.rt = "locking" /\ visual'.why = "Step"
                    /\ visual'.calls = 0)
          /\ (Takes("Step") /\ visual.running)
                => (visual'.rt = "poll" /\ UNCHANGED interpreter
                    /\ visual'.why = visual.why)
          /\ (Takes("Slower") \/ Takes("Faster"))
                => (visual'.running = visual.running /\ UNCHANGED interpreter)
          /\ visual'.calls <= 1
          /\ (visual.rt # "poll" /\ visual'.rt = "poll") => visual'.calls = 1
          /\ interpreter' # interpreter
                => \/ visual.why = "Step"
                   \/ visual.why = "tick" /\ visual.running]_vars

\* a Step taken while paused has advanced 23*.@ by exactly one step
C26_Witness ==
    /\ visual.why = "Step" /\ visual.calls = 1 /\ visual.rt = "poll"
    /\ ~visual.running /\ stack = <<2>> /\ pos = <<1, 0>> /\ ret = "Some"

\* C27: the machine is total on recognized instructions. A step on a cell
\* that holds an instruction of the table, with any `p`/`g` coordinates inside
\* the grid, completes without aborting; `/` and `%` do so when the divisor a
\* is 0.
C27_TotalOnInstructions ==
    [][(/\ mode = "Execute"
        /\ Cell \in Instructions
        /\ Cell \in {Ord["p"], Ord["g"]} => InGrid(Operand(2), Operand(1)))
       => (panic' = NoPanic /\ ret' \in {"Some", "None"})]_vars

\* C28: mode transitions. The run starts in Execute with an empty stack at
\* (0,0) facing Right. Execute goes to Parse by executing `"` and only so, to
\* Terminate by executing `@` and only so, and else stays Execute; Parse goes
\* to Execute on a `"` cell and only so, else stays Parse, and never goes to
\* Terminate.
C28_ModeGraph ==
    /\ (mode = "Execute" /\ stack = <<>> /\ pos = <<0, 0>> /\ dir = "Right")
    /\ [][panic' = NoPanic =>
            /\ mode \in {"Execute", "Parse", "Terminate"}
            /\ mode = "Execute" =>
                  /\ (mode' = "Parse") = (Cell = Ord["\""])
                  /\ (mode' = "Terminate") = (Cell = Ord["@"])
                  /\ mode' \in {"Execute", "Parse", "Terminate"}
            /\ mode = "Parse" =>
                  /\ (mode' = "Execute") = (Cell = Ord["\""])
                  /\ mode' \in {"Execute", "Parse"}]_vars

\* the string of "@x7+ is open and the `@` in it has been pushed, not executed
C28_Witness ==
    /\ source = Bytes(<<"\"", "@", "x", "7", "+">>)
    /\ mode = "Parse" /\ dispatched = "parse_step" /\ stack = <<64>>
    /\ pos = <<2, 0>>

\* s is what is left of t after some of its first elements are taken away
IsSuffix(s, t) ==
    Len(s) <= Len(t) /\ s = SubSeq(t, Len(t) - Len(s) + 1, Len(t))

\* C29: side effects are confined to their instructions. The grid changes only
\* in a step that executes `p`, and then in one cell at most; the output only
\* in a step that executes `.` or `,`, and only by growing at its end; input is
\* consumed only by a step that executes `&` or `~`; no step in Parse mode
\* changes any of the three.
C29_EffectsConfined ==
    [][/\ field' # field =>
             /\ mode = "Execute" /\ Cell = Ord["p"]
             /\ DOMAIN field' = DOMAIN field
             /\ Cardinality({i \in DOMAIN field : field'[i] # field[i]}) = 1
       /\ output' # output =>
             /\ mode = "Execute" /\ Cell \in {Ord["."], Ord[","]}
             /\ Len(output') > Len(output)
             /\ SubSeq(output', 1, Len(output)) = output
       /\ input' # input =>
             /\ mode = "Execute" /\ Cell \in {Ord["&"], Ord["~"]}
             /\ IsSuffix(input', input)
       /\ mode = "Parse" => UNCHANGED <<field, output, input>>]_vars

\* "a",25*, has written `a` and a line feed and has come round to its string
\* again, where pushing the `a` has left the output as it was
C29_Witness ==
    /\ source = Bytes(<<"\"", "a", "\"", ",", "2", "5", "*", ",">>)
    /\ output = <<97, 10>> /\ mode = "Parse" /\ dispatched = "parse_step"
    /\ pos = <<2, 0>> /\ stack = <<97>>

\* C30: each step dispatches what the grid holds at the navigator's position
\* at the time of the step: a cell that a `p` has overwritten is executed, or
\* pushed in string mode, as its new byte, not as the byte of the source.
C30_DispatchesCurrentCell ==
    [][(mode # "Terminate" /\ puts[pos[1] + width * pos[2]] # <<>>) =>
          LET b == LowByte(puts[pos[1] + width * pos[2]][1])
          IN  /\ (mode = "Parse" /\ b # 34) => stack' = Append(stack, b)
              /\ (mode = "Parse" /\ b = 34) => (mode' = "Execute" /\ stack' = stack)
              /\ (mode = "Execute" /\ b \in 48..57) => stack' = Append(stack, b - 48)
              /\ (mode = "Execute" /\ b = 64) => (mode' = "Terminate" /\ ret' = "None")
              /\ (mode = "Execute" /\ b = 34) => mode' = "Parse"
              /\ (mode = "Execute" /\ b = 32) => (stack' = stack /\ ret' = "Some")
              /\ (mode = "Execute" /\ b \notin Instructions) => panic' # NoPanic]_vars

\* "@"60p1 has stored `@` over its last cell, a 1 in the source, and the run
\* has ended there
C30_Witness ==
    /\ source = Bytes(<<"\"", "@", "\"", "6", "0", "p", "1">>)
    /\ puts[6] = <<64>> /\ field[6] = 64 /\ pos = <<6, 0>>
    /\ mode = "Terminate" /\ ret = "None" /\ stack = <<>>

\* C31: usable grid. Creating the grid fails when the source text has no line
\* and only then; every grid it returns has width >= 1 and height >= 1, so
\* that the navigator's position (0, 0) lies in the grid and the read of that
\* cell by the interpreter's first step finds it.
C31_UsableGrid ==
    /\ LineCount = 0 => panic = UnwrapNone
    /\ IF panic = UnwrapNone THEN LineCount = 0
       ELSE /\ width >= 1
            /\ height >= 1
            /\ InGrid(0, 0)
            /\ Index(field, width, 0, 0, debug).ok

====
